---- MODULE Spec2Model ----
(***************************************************************************)
(* A model of pseudonema: the configuration manager (config.py), the trend *)
(* engine (trend_engine.py), the bot's trend cache and handlers (main.py)  *)
(* and the scout agent (scout_agent.py).                                   *)
(*                                                                         *)
(* Three specifications share the variables:                               *)
(*   SpecConfig  the ConfigManager's methods called in any order           *)
(*   Spec        the bot: concurrent update handlers on one event loop     *)
(*   SpecScout   ScoutAgent.run_scout with its executor tasks              *)
(***************************************************************************)
EXTENDS Integers, Sequences, FiniteSets, TLC

(***************************************************************************)
(* Bounds of the model.                                                    *)
(***************************************************************************)
\* longest topic list of a subcategory of the remote taxonomy
MaxTopics == 2
\* trend generations started by the bot's handlers
MaxRuns == 3
\* longest array the LLM returns
MaxLLM == 2
\* most rows of the remote feed list
MaxRows == 2
\* the search results of one response
MaxResults == 3
\* the entries of one feed
MaxEntries == 6

(***************************************************************************)
(* Program constants.                                                      *)
(***************************************************************************)
\* config.py:40, 56  default of num_topics
DefaultNumTopics == 2
\* config.py:41, 57  default of num_trends
DefaultNumTrends == 6
\* config.py:39, 55  default of active_category
DefaultCategory == "technology"
\* scout_agent.py:116  entries of a feed that are inspected
EntriesInspected == 5
\* scout_agent.py:126  summaries shorter than this get the full text fetched
ShortSummary == 300
\* scout_agent.py:129  characters of the full text that are kept
FullTextKept == 3000

(***************************************************************************)
(* Small helpers.                                                          *)
(***************************************************************************)
Min(a, b) == IF a <= b THEN a ELSE b

Range(s) == {s[i] : i \in 1..Len(s)}

SeqsUpTo(S, n) == UNION {[1..k -> S] : k \in 0..n}

\* the injective sequences of length k over 1..n: the positions a sample
\* without replacement can pick, in the order it returns them
InjectiveSeqs(n, k) ==
    {p \in [1..k -> 1..n] : \A i, j \in 1..k : i # j => p[i] # p[j]}

\* how often x occurs in the sequence s
Count(s, x) == Cardinality({i \in 1..Len(s) : s[i] = x})

(***************************************************************************)
(* Inputs of the configuration manager.                                    *)
(***************************************************************************)
CategoryNames == {"technology", "science"}
SubcatNames == {"llm", "systems"}
TopicNames == {"ai", "rust"}
NumTopicsValues == {-1, 0, 1, 3}
NumTrendsValues == {1}

\* config.py:27  the urls of a subcategory are passed on unfiltered
UrlsOf(name) == IF name = "llm" THEN <<"arxiv.org">> ELSE <<>>

\* config.py:24-27  RemoteSubcategory
RemoteSubcategory ==
    [name : SubcatNames, topics : SeqsUpTo(TopicNames, MaxTopics), urls : {<<>>, <<"arxiv.org">>}]

Subcategories == {s \in RemoteSubcategory : s.urls = UrlsOf(s.name)}

\* subcategory lists of a category: names unique within the category
SubcatLists ==
    {<<>>} \cup {<<s>> : s \in Subcategories}
           \cup {<<s, t>> : s \in {x \in Subcategories : x.name = "llm"},
                            t \in {x \in Subcategories :
                                     x.name = "systems" /\ x.topics \in {<<>>, <<"rust">>}}}

\* config.py:29-31  RemoteCategory
RemoteCategory == [name : CategoryNames, subcategories : SubcatLists]

\* a second category, listed before or after the first one
OtherCategory(c) ==
    [name |-> IF c.name = "technology" THEN "science" ELSE "technology",
     subcategories |-> <<[name |-> "systems", topics |-> <<"rust">>, urls |-> <<>>]>>]

\* config.py:33-34  RemoteDataSchema.categories: the validated payloads
Taxonomies ==
    {<<>>} \cup {<<c>> : c \in RemoteCategory}
           \cup {<<OtherCategory(c), c>> : c \in {x \in RemoteCategory : Len(x.subcategories) = 1}}

\* What _load_policy finds at yaml_path.  kind: "missing" (FileNotFoundError),
\* "badyaml" (yaml.YAMLError), "nondict" (YAML that is a non-empty list or
\* scalar), "dict" (a mapping, possibly empty; an empty document loads as {}).
\* Each key of a mapping is a set holding its value, empty when the key is absent.
PolicyFiles ==
    [kind : {"missing", "badyaml", "nondict"}, ac : {{}}, nt : {{}}, ntr : {{}}]
    \cup [kind : {"dict"},
          ac : {{}} \cup {{c} : c \in CategoryNames},
          nt : {{}} \cup {{n} : n \in NumTopicsValues},
          ntr : {{}} \cup {{n} : n \in NumTrendsValues}]

\* What the GET of REMOTE_DATA_URL ends in.
RemoteOutcomes ==
    [kind : {"http_error", "validation_error", "other_error"}, categories : {<<>>}]
    \cup [kind : {"ok"}, categories : Taxonomies]

VARIABLES
    active_category,   \* ConfigManager.active_category
    num_topics,        \* ConfigManager.num_topics
    num_trends,        \* ConfigManager.num_trends
    remote_data,       \* ConfigManager.remote_data
    env_remote_url,    \* whether REMOTE_DATA_URL is set in the environment
    cfg_call,          \* the last direct call of a ConfigManager method and its outcome
    app,               \* main.py lifespan: "starting", "running" or "failed"
    pc,                \* where each update handler of the bot is suspended
    loc,               \* the locals of each update handler
    cache,             \* main.py _latest_trends
    trends_table,      \* the rows of the store's trends table
    next_id,           \* the next id the store assigns to a trends row
    runs,              \* the number of trend generations started
    last_success,      \* history: the last non-empty list fetch_and_generate_trends returned
    generations,       \* history: the id-to-Trend mapping of every such list
    feeds_csv_url,     \* ScoutAgent.feeds_csv_url is set
    sc_pc,             \* where run_scout is
    sc,                \* the locals of run_scout
    research_sessions, \* the rows of the store's research_sessions table
    raw_news,          \* the rows of the store's raw_news table, in insertion order
    prompt_call,       \* the last direct run of the prompt preparation and what it built
    feed_call          \* the last direct call of _parse_single_feed and what it did

cfgVars == <<active_category, num_topics, num_trends, remote_data, env_remote_url>>

botVars == <<app, pc, loc, cache, trends_table, next_id, runs, last_success, generations>>

scoutVars == <<feeds_csv_url, sc_pc, sc, research_sessions, raw_news>>

unitVars == <<prompt_call, feed_call>>

vars == <<cfgVars, cfg_call, botVars, scoutVars, unitVars>>

(***************************************************************************)
(* ConfigManager (config.py).                                              *)
(***************************************************************************)
\* dict.get(key, default) on a key held as a set of at most one value
Get(held, default) == IF held = {} THEN default ELSE CHOOSE v \in held : TRUE

\* config.py:51-63  the policy after _load_policy found `file`: the three
\* attributes are assigned from a mapping only; FileNotFoundError and
\* YAMLError are caught and logged, and a non-mapping raises before line 55
\* assigns anything
PolicyAfterLoad(cur, file) ==
    IF file.kind = "dict"
    THEN [ac |-> Get(file.ac, DefaultCategory),
          nt |-> Get(file.nt, DefaultNumTopics),
          ntr |-> Get(file.ntr, DefaultNumTrends)]
    ELSE cur

\* config.py:55  data.get on a YAML document that is no mapping raises
\* AttributeError, which neither except clause (lines 60, 62) catches
PolicyLoadRaises(file) == file.kind = "nondict"

\* config.py:65-88  remote_data after _load_remote_data: assigned on line 80
\* only, after validation; every failure branch returns or logs
RemoteDataAfterLoad(cur, url_set, outcome) ==
    IF url_set /\ outcome.kind = "ok" THEN outcome.categories ELSE cur

\* FindCategory taking the first category whatever its name
FindCategoryAny(rd, name) == IF rd = <<>> THEN 0 ELSE 1

\* config.py:98  next((cat for cat in remote_data if cat.name == active_category), None):
\* the index of the first category of that name, 0 for None
FindCategory(rd, name) ==
    IF \E i \in 1..Len(rd) : rd[i].name = name
    THEN CHOOSE i \in 1..Len(rd) :
            /\ rd[i].name = name
            /\ \A j \in 1..(i - 1) : rd[j].name # name
    ELSE 0

\* FilterExcluded with the filter of line 111 left out
FilterExcludedNothing(topics, excluded) == topics

\* config.py:110-111  an empty or absent exclusion list filters nothing
FilterExcluded(topics, excluded) ==
    SelectSeq(topics, LAMBDA t : t \notin excluded)

\* config.py:117  sample_size
SampleSize(nt, available) == Min(nt, Len(available))

\* config.py:118  random.sample(available, k): k elements at pairwise
\* distinct positions, in any order
Samples(available, k) ==
    {[i \in 1..k |-> available[p[i]]] : p \in InjectiveSeqs(Len(available), k)}

NoTopics == <<>>

\* config.py:95, 101, 114  the text of the ValueError and the values its
\* f-string interpolates, each held as a set (empty when the message does not
\* interpolate it); random.sample's own ValueError (line 118) names nothing
ErrorMessage(error, cfg, subcat, excluded) ==
    CASE error = "NotReady" ->
            [text |-> "ConfigManager has no remote data loaded",
             category |-> {}, subcat |-> {}, excluded |-> {}]
      [] error = "NotFound" ->
            [text |-> "No data or subcategories found for active category",
             category |-> {cfg.ac}, subcat |-> {}, excluded |-> {}]
      [] error = "Exhausted" ->
            [text |-> "No topics available in ... after excluding",
             category |-> {}, subcat |-> {subcat}, excluded |-> {excluded}]
      [] error = "SampleSize" ->
            [text |-> "Sample larger than population or is negative",
             category |-> {}, subcat |-> {}, excluded |-> {}]
      [] OTHER ->
            [text |-> "", category |-> {}, subcat |-> {}, excluded |-> {}]

SelResult(cfg, status, error, idx, subcat, excluded, topics, urls) ==
    [status |-> status, error |-> error, idx |-> idx, subcat |-> subcat,
     excluded |-> excluded, topics |-> topics, urls |-> urls,
     num_trends |-> cfg.ntr, category |-> cfg.ac,
     message |-> ErrorMessage(error, cfg, subcat, excluded)]

\* SelectFrom with the check of line 113 left out
SelectFromUnchecked(cfg, c, idx, excluded) ==
    LET sub == cfg.rd[c].subcategories[idx]
        available == FilterExcluded(sub.topics, excluded)
        k == SampleSize(cfg.nt, available)
    IN  IF k < 0
        THEN {SelResult(cfg, "raised", "SampleSize", idx, sub.name, excluded, NoTopics, <<>>)}
        ELSE {SelResult(cfg, "returned", "", idx, sub.name, excluded, t, sub.urls) :
                t \in Samples(available, k)}

\* config.py:113-120  the outcomes of get_trends once subcategory idx of
\* category c is chosen
SelectFrom(cfg, c, idx, excluded) ==
    LET sub == cfg.rd[c].subcategories[idx]
        available == FilterExcluded(sub.topics, excluded)
        k == SampleSize(cfg.nt, available)
    IN  IF available = <<>>
        THEN {SelResult(cfg, "raised", "Exhausted", idx, sub.name, excluded, NoTopics, <<>>)}
        ELSE IF k < 0
        THEN {SelResult(cfg, "raised", "SampleSize", idx, sub.name, excluded, NoTopics, <<>>)}
        ELSE {SelResult(cfg, "returned", "", idx, sub.name, excluded, t, sub.urls) :
                t \in Samples(available, k)}

\* config.py:90-120  get_trends(excluded_topics) of a manager in state cfg:
\* every outcome the random source allows
GetTrendsOf(cfg, excluded) ==
    IF cfg.rd = <<>>
    THEN {SelResult(cfg, "raised", "NotReady", 0, "", excluded, NoTopics, <<>>)}
    ELSE LET c == FindCategory(cfg.rd, cfg.ac)
         IN  IF c = 0 \/ cfg.rd[c].subcategories = <<>>
             THEN {SelResult(cfg, "raised", "NotFound", 0, "", excluded, NoTopics, <<>>)}
             ELSE UNION {SelectFrom(cfg, c, idx, excluded) :
                            idx \in 1..Len(cfg.rd[c].subcategories)}

\* the manager's attributes
CurCfg ==
    [rd |-> remote_data, ac |-> active_category, nt |-> num_topics, ntr |-> num_trends]

GetTrendsOutcomes(excluded) == GetTrendsOf(CurCfg, excluded)

NoSel == [status |-> "none", error |-> "", idx |-> 0, subcat |-> "", excluded |-> {},
          topics |-> NoTopics, urls |-> <<>>, num_trends |-> 0, category |-> "",
          message |-> [text |-> "", category |-> {}, subcat |-> {}, excluded |-> {}]]

CfgCall(op, status, detail, res) ==
    [op |-> op, status |-> status, detail |-> detail, res |-> res]

(***************************************************************************)
(* The trend engine (trend_engine.py) and the bot's cache (main.py).       *)
(***************************************************************************)
Handlers == {"h1", "h2"}

\* config.py:18  Trend.id is None until the store assigns one
NoId == 0

EmptyCache == <<>>

\* trend_engine.py:53-57  ParentDetails
ParentDetails(sel) ==
    [category |-> sel.category, subcategory |-> sel.subcat, topics |-> sel.topics]

BlankLoc ==
    [kind |-> "none", sel |-> NoSel, trends_data |-> <<>>, result |-> <<>>,
     synth |-> "none", fail |-> "", inserted |-> {}, error |-> "",
     seen |-> EmptyCache, trend |-> <<>>]

\* main.py:50-56 and the store before the first request
InitBotIdle ==
    /\ app = "starting"
    /\ pc = [h \in Handlers |-> "idle"]
    /\ loc = [h \in Handlers |-> BlankLoc]
    /\ cache = EmptyCache
    /\ trends_table = {}
    /\ next_id = 1
    /\ runs = 0
    /\ last_success = <<>>
    /\ generations = {}

(***************************************************************************)
(* The scout agent's state (scout_agent.py).                               *)
(***************************************************************************)
NoSession == 0

BlankScout ==
    [topic |-> <<>>, feed_config |-> <<>>, session |-> "none", session_id |-> NoSession,
     to_launch |-> <<>>, tasks |-> <<>>, collected |-> <<>>, insert |-> "none",
     outcome |-> "none", result |-> NoSession]

\* scout_agent.py:32-41  a constructed agent and the store it writes to
InitScoutIdle ==
    /\ sc_pc = "idle"
    /\ sc = BlankScout
    /\ research_sessions = {}
    /\ raw_news = <<>>

\* no direct run of the prompt preparation yet
NoPromptCall ==
    [outcome |-> "none", raw_results |-> <<>>, sorted_results |-> <<>>, blocks |-> <<>>]

\* no direct call of _parse_single_feed yet
NoFeedCall ==
    [outcome |-> "none", entries |-> <<>>, topic |-> <<>>, web |-> <<>>,
     fetched |-> <<>>, articles |-> <<>>]

InitUnitIdle ==
    /\ prompt_call = NoPromptCall
    /\ feed_call = NoFeedCall

\* config.py:36-42  ConfigManager.__init__
InitConfig ==
    /\ active_category = DefaultCategory
    /\ num_topics = DefaultNumTopics
    /\ num_trends = DefaultNumTrends
    /\ remote_data = <<>>
    /\ cfg_call = CfgCall("none", "returned", "", NoSel)

\* the configuration manager alone: the bot is not started
InitConfigOnly ==
    /\ InitConfig
    /\ env_remote_url \in BOOLEAN
    /\ InitBotIdle
    /\ InitScoutIdle
    /\ InitUnitIdle
    /\ feeds_csv_url = FALSE

\* config.py:49-63  a call of _load_policy
LoadPolicy(file) ==
    LET new == PolicyAfterLoad([ac |-> active_category, nt |-> num_topics,
                                ntr |-> num_trends], file)
    IN  /\ active_category' = new.ac
        /\ num_topics' = new.nt
        /\ num_trends' = new.ntr
        /\ cfg_call' = CfgCall("load_policy",
                               IF PolicyLoadRaises(file) THEN "raised" ELSE "returned",
                               file.kind, NoSel)
        /\ UNCHANGED <<remote_data, env_remote_url>>

\* config.py:65-88  a call of _load_remote_data
LoadRemoteData(outcome) ==
    /\ remote_data' = RemoteDataAfterLoad(remote_data, env_remote_url, outcome)
    /\ cfg_call' = CfgCall("load_remote_data", "returned",
                           IF env_remote_url THEN outcome.kind ELSE "no_url", NoSel)
    /\ UNCHANGED <<active_category, num_topics, num_trends, env_remote_url>>

\* config.py:90-120  a call of get_trends
GetTrends(excluded) ==
    /\ \E r \in GetTrendsOutcomes(excluded) :
          cfg_call' = CfgCall("get_trends", r.status, r.error, r)
    /\ UNCHANGED cfgVars

CallLoadPolicy ==
    /\ \E file \in PolicyFiles : LoadPolicy(file)
    /\ UNCHANGED <<botVars, scoutVars, unitVars>>

CallLoadRemoteData ==
    /\ \E outcome \in RemoteOutcomes : LoadRemoteData(outcome)
    /\ UNCHANGED <<botVars, scoutVars, unitVars>>

CallGetTrends ==
    /\ \E excluded \in SUBSET TopicNames : GetTrends(excluded)
    /\ UNCHANGED <<botVars, scoutVars, unitVars>>

NextConfig == CallLoadPolicy \/ CallLoadRemoteData \/ CallGetTrends

SpecConfig == InitConfigOnly /\ [][NextConfig]_vars

(***************************************************************************)
(* TrendEngine.fetch_and_generate_trends (trend_engine.py).                *)
(***************************************************************************)
\* the raw objects of the array the LLM returns: each key holds its string,
\* or nothing when the key is missing
RawItems ==
    {[name |-> {"Agents"}, context |-> {"why"}],
     [name |-> {"Agents"}, context |-> {}],
     [name |-> {}, context |-> {"why"}]}

\* what the generate_content call ends in: it raises, or its text is no JSON
\* array, or it is an array of raw objects
LLMResponses ==
    [kind : {"raise", "notjson"}, items : {<<>>}]
    \cup [kind : {"array"}, items : SeqsUpTo(RawItems, MaxLLM)]

\* what the Tavily search ends in
SearchResponses == {"raise", "empty", "results"}

\* what the batch insert into the trends table ends in
InsertOutcomes == {"raise", "no_rows", "ok"}

\* config.py:17-22  Trend
Trend(id, name, context, pd) ==
    [id |-> id, name |-> name, context |-> context, parent_details |-> pd,
     status |-> "false"]

\* SearchStep without the try/except of lines 89-93
SearchStepUncaught(resp) ==
    IF resp = "raise" THEN "raise"
    ELSE IF resp = "empty" THEN "return_empty" ELSE "continue"

\* trend_engine.py:89-99  a failed search and an empty result list both
\* return []
SearchStep(resp) ==
    IF resp = "raise" THEN "return_empty"
    ELSE IF resp = "empty" THEN "return_empty" ELSE "continue"

\* trend_engine.py:17-19, 148-149  TypeAdapter(List[LLMTrend]).validate_json:
\* the text is a JSON array whose objects all have a name and a context
ValidLLM(resp) ==
    /\ resp.kind = "array"
    /\ \A i \in 1..Len(resp.items) :
          resp.items[i].name # {} /\ resp.items[i].context # {}

\* trend_engine.py:151-160  the validated objects mapped to Trends without id
MapToTrends(items, pd) ==
    [i \in 1..Len(items) |->
        Trend(NoId, Get(items[i].name, ""), Get(items[i].context, ""), pd)]

\* LLMStep that keeps the objects that validate instead of failing as a whole
LLMStepPartial(resp, pd) ==
    IF resp.kind # "array"
    THEN [next |-> "return_empty", trends_data |-> <<>>]
    ELSE [next |-> "continue",
          trends_data |-> MapToTrends(
              SelectSeq(resp.items, LAMBDA it : it.name # {} /\ it.context # {}), pd)]

\* trend_engine.py:135-167  a raising call and a text that fails validation
\* both return []
LLMStep(resp, pd) ==
    IF resp.kind = "raise" \/ ~ValidLLM(resp)
    THEN [next |-> "return_empty", trends_data |-> <<>>]
    ELSE [next |-> "continue", trends_data |-> MapToTrends(resp.items, pd)]

\* trend_engine.py:172  model_dump(exclude_none=True): the id, still None, is left out
ModelDump(t) ==
    [name |-> t.name, context |-> t.context, parent_details |-> t.parent_details,
     status |-> t.status]

\* the store assigns consecutive ids to the rows of one batch
StoreRows(payloads, first_id) ==
    [i \in 1..Len(payloads) |->
        [id |-> first_id + i - 1, name |-> payloads[i].name,
         context |-> payloads[i].context,
         parent_details |-> payloads[i].parent_details, status |-> payloads[i].status]]

\* trend_engine.py:176  Trend.model_validate(row)
ModelValidate(row) == Trend(row.id, row.name, row.context, row.parent_details)

\* PersistResult that hands back the unsaved trends when the insert fails
PersistResultUnsaved(trends_data, outcome, rows) ==
    IF outcome = "ok"
    THEN [i \in 1..Len(rows) |-> ModelValidate(rows[i])]
    ELSE trends_data

\* trend_engine.py:171-184  the list returned after the insert: the rows the
\* store returned, or [] when it raised or returned none
PersistResult(trends_data, outcome, rows) ==
    IF outcome = "ok" /\ rows # <<>>
    THEN [i \in 1..Len(rows) |-> ModelValidate(rows[i])]
    ELSE <<>>

(***************************************************************************)
(* The trend cache and the handlers (main.py).                             *)
(***************************************************************************)
\* main.py:120  {str(t.id): t for t in trends if t.id}: a later trend of the
\* same id replaces an earlier one
TrendsById(trends) ==
    [k \in {trends[i].id : i \in {j \in 1..Len(trends) : trends[j].id # NoId}} |->
        LET last == CHOOSE i \in 1..Len(trends) :
                        /\ trends[i].id = k
                        /\ \A j \in (i + 1)..Len(trends) : trends[j].id # k
        IN  trends[last]]

\* UpdateCache that adds the new trends to the mapping in place
UpdateCacheInPlace(old, trends) ==
    IF trends # <<>>
    THEN LET new == TrendsById(trends)
         IN  [k \in DOMAIN old \cup DOMAIN new |->
                 IF k \in DOMAIN new THEN new[k] ELSE old[k]]
    ELSE old

\* UpdateCache without the test of line 118
UpdateCacheAlways(old, trends) == TrendsById(trends)

\* main.py:118-120  the cache after fetch_and_generate_trends returned trends
UpdateCache(old, trends) ==
    IF trends # <<>> THEN TrendsById(trends) ELSE old

Go(h, to, l) ==
    /\ pc' = [pc EXCEPT ![h] = to]
    /\ loc' = [loc EXCEPT ![h] = l]

\* main.py:110-131  fetch_and_generate_trends returned `result` to
\* trigger_trend_generation, which runs on to the edit_text it awaits
SynthReturns(h, l, result) ==
    /\ cache' = UpdateCache(cache, result)
    /\ last_success' = IF result # <<>> THEN result ELSE last_success
    /\ generations' = IF result # <<>> THEN generations \cup {TrendsById(result)}
                      ELSE generations
    /\ Go(h, "t_report", [l EXCEPT !.result = result, !.synth = "returned"])

\* main.py:129-131  an exception inside the try of trigger_trend_generation
TriggerFails(h, l, error) ==
    Go(h, "t_report", [l EXCEPT !.error = error])

\* main.py:108-116, trend_engine.py:50-90  get_trends and the start of
\* fetch_and_generate_trends, up to the search it awaits
AfterInitialize(h, cfg) ==
    \E r \in GetTrendsOf(cfg, {}) :
        IF r.status = "raised"
        THEN TriggerFails(h, loc[h], r.error)
        ELSE Go(h, "s_search", [loc[h] EXCEPT !.sel = r, !.synth = "running"])

\* main.py:261-264  lifespan: the manager is initialized before the handlers run
Startup(file, outcome) ==
    /\ app = "starting"
    /\ LET new == PolicyAfterLoad([ac |-> active_category, nt |-> num_topics,
                                   ntr |-> num_trends], file)
       IN  /\ active_category' = new.ac
           /\ num_topics' = new.nt
           /\ num_trends' = new.ntr
    /\ IF PolicyLoadRaises(file)
       THEN app' = "failed" /\ UNCHANGED remote_data
       ELSE /\ app' = "running"
            /\ remote_data' = RemoteDataAfterLoad(remote_data, env_remote_url, outcome)
    /\ UNCHANGED <<env_remote_url, cfg_call, pc, loc, cache, trends_table, next_id,
                   runs, last_success, generations, scoutVars, unitVars>>

\* main.py:159-162, 97-104  /trending: trigger_trend_generation awaits reply_text
TrendingCommand(h) ==
    /\ app = "running" /\ pc[h] = "idle" /\ runs < MaxRuns
    /\ runs' = runs + 1
    /\ Go(h, "t_status", [BlankLoc EXCEPT !.kind = "regen"])
    /\ UNCHANGED <<cfgVars, cfg_call, app, cache, trends_table, next_id,
                   last_success, generations, scoutVars, unitVars>>

\* main.py:169-171  a callback query of another user is answered and dropped
ButtonDenied(h) ==
    /\ app = "running" /\ pc[h] = "idle"
    /\ Go(h, "b_last", [BlankLoc EXCEPT !.kind = "denied"])
    /\ UNCHANGED <<cfgVars, cfg_call, app, cache, trends_table, next_id, runs,
                   last_success, generations, scoutVars, unitVars>>

\* main.py:230-233  refresh_trending: query.answer is awaited first
ButtonRefresh(h) ==
    /\ app = "running" /\ pc[h] = "idle" /\ runs < MaxRuns
    /\ runs' = runs + 1
    /\ Go(h, "b_refresh", [BlankLoc EXCEPT !.kind = "regen"])
    /\ UNCHANGED <<cfgVars, cfg_call, app, cache, trends_table, next_id,
                   last_success, generations, scoutVars, unitVars>>

\* main.py:233, 97-104  the answer is sent: trigger_trend_generation awaits reply_text
RefreshAnswered(h) ==
    /\ pc[h] = "b_refresh"
    /\ Go(h, "t_status", loc[h])
    /\ UNCHANGED <<cfgVars, cfg_call, app, cache, trends_table, next_id, runs,
                   last_success, generations, scoutVars, unitVars>>

\* main.py:106-107, config.py:44-70  initialize: _load_policy, then
\* _load_remote_data up to its GET; without REMOTE_DATA_URL it returns at
\* once and the handler runs on
TriggerInitialize(h, file) ==
    /\ pc[h] = "t_status"
    /\ LET new == PolicyAfterLoad([ac |-> active_category, nt |-> num_topics,
                                   ntr |-> num_trends], file)
       IN  /\ active_category' = new.ac
           /\ num_topics' = new.nt
           /\ num_trends' = new.ntr
           /\ IF PolicyLoadRaises(file)
              THEN TriggerFails(h, loc[h], "AttributeError")
              ELSE IF env_remote_url
              THEN Go(h, "t_remote", loc[h])
              ELSE AfterInitialize(h, [rd |-> RemoteDataAfterLoad(remote_data, FALSE,
                                                 [kind |-> "no_url", categories |-> <<>>]),
                                       ac |-> new.ac, nt |-> new.nt, ntr |-> new.ntr])
    /\ UNCHANGED <<remote_data, env_remote_url, cfg_call, app, cache, trends_table,
                   next_id, runs, last_success, generations, scoutVars, unitVars>>

\* config.py:75-88, main.py:108  the GET ended: remote_data is set or kept,
\* then get_trends runs
TriggerRemoteLoaded(h, outcome) ==
    /\ pc[h] = "t_remote"
    /\ LET rd == RemoteDataAfterLoad(remote_data, env_remote_url, outcome)
       IN  /\ remote_data' = rd
           /\ AfterInitialize(h, [rd |-> rd, ac |-> active_category,
                                  nt |-> num_topics, ntr |-> num_trends])
    /\ UNCHANGED <<active_category, num_topics, num_trends, env_remote_url, cfg_call,
                   app, cache, trends_table, next_id, runs, last_success, generations, scoutVars, unitVars>>

\* trend_engine.py:89-99  the search ended
SearchResponse(h, resp) ==
    /\ pc[h] = "s_search"
    /\ LET l == [loc[h] EXCEPT !.fail = IF resp = "raise" THEN "search_raise"
                                        ELSE IF resp = "empty" THEN "no_results" ELSE ""]
           step == SearchStep(resp)
       IN  IF step = "return_empty"
           THEN SynthReturns(h, l, <<>>)
           ELSE /\ IF step = "raise"
                   THEN TriggerFails(h, [l EXCEPT !.synth = "raised"], "search")
                   ELSE Go(h, "s_llm", l)
                /\ UNCHANGED <<cache, last_success, generations>>
    /\ UNCHANGED <<cfgVars, cfg_call, app, trends_table, next_id, runs, scoutVars, unitVars>>

\* trend_engine.py:135-173  the LLM call ended; the insert is awaited next
LLMResponse(h, resp) ==
    /\ pc[h] = "s_llm"
    /\ LET l == [loc[h] EXCEPT !.fail = IF resp.kind = "raise" THEN "llm_raise"
                                        ELSE IF ~ValidLLM(resp) THEN "llm_invalid" ELSE ""]
           step == LLMStep(resp, ParentDetails(loc[h].sel))
       IN  IF step.next = "return_empty"
           THEN SynthReturns(h, l, <<>>)
           ELSE /\ Go(h, "s_insert", [l EXCEPT !.trends_data = step.trends_data])
                /\ UNCHANGED <<cache, last_success, generations>>
    /\ UNCHANGED <<cfgVars, cfg_call, app, trends_table, next_id, runs, scoutVars, unitVars>>

\* trend_engine.py:173-184  the insert ended; an empty batch stores nothing
InsertResponse(h, outcome) ==
    /\ pc[h] = "s_insert"
    /\ outcome = "ok" => loc[h].trends_data # <<>>
    /\ LET payloads == [i \in 1..Len(loc[h].trends_data) |-> ModelDump(loc[h].trends_data[i])]
           rows == IF outcome = "ok" THEN StoreRows(payloads, next_id) ELSE <<>>
           l == [loc[h] EXCEPT !.fail = IF loc[h].fail # "" THEN loc[h].fail
                                        ELSE IF outcome = "raise" THEN "insert_raise"
                                        ELSE IF outcome = "no_rows" THEN "insert_no_rows"
                                        ELSE "",
                               !.inserted = {rows[i].id : i \in 1..Len(rows)}]
       IN  /\ trends_table' = trends_table \cup Range(rows)
           /\ next_id' = next_id + Len(rows)
           /\ SynthReturns(h, l, PersistResult(loc[h].trends_data, outcome, rows))
    /\ UNCHANGED <<cfgVars, cfg_call, app, runs, scoutVars, unitVars>>

\* main.py:125-131  the status message is edited: trigger_trend_generation returns
TriggerReport(h) ==
    /\ pc[h] = "t_report"
    /\ Go(h, "idle", BlankLoc)
    /\ UNCHANGED <<cfgVars, cfg_call, app, cache, trends_table, next_id, runs,
                   last_success, generations, scoutVars, unitVars>>

\* main.py:179-186, 210-217  view_<id> and scout_<id>: one lookup in the cache
ButtonLookup(h, kind, key) ==
    /\ app = "running" /\ pc[h] = "idle"
    /\ LET l == [BlankLoc EXCEPT !.kind = kind, !.seen = cache]
       IN  IF key \in DOMAIN cache
           THEN Go(h, "b_answer", [l EXCEPT !.trend = <<cache[key]>>])
           ELSE Go(h, "b_last", l)
    /\ UNCHANGED <<cfgVars, cfg_call, app, cache, trends_table, next_id, runs,
                   last_success, generations, scoutVars, unitVars>>

\* main.py:198-202  back_to_list: the cache is tested for emptiness
ButtonBack(h) ==
    /\ app = "running" /\ pc[h] = "idle"
    /\ LET l == [BlankLoc EXCEPT !.kind = "back", !.seen = cache]
       IN  IF cache = EmptyCache THEN Go(h, "b_last", l) ELSE Go(h, "b_answer", l)
    /\ UNCHANGED <<cfgVars, cfg_call, app, cache, trends_table, next_id, runs,
                   last_success, generations, scoutVars, unitVars>>

\* main.py:188-196, 204-208, 219-228  query.answer returned; back_to_list
\* reads the cache again to list its values
ButtonAnswered(h) ==
    /\ pc[h] = "b_answer"
    /\ Go(h, "b_last", IF loc[h].kind = "back" THEN [loc[h] EXCEPT !.seen = cache]
                       ELSE loc[h])
    /\ UNCHANGED <<cfgVars, cfg_call, app, cache, trends_table, next_id, runs,
                   last_success, generations, scoutVars, unitVars>>

\* the last call the handler awaits returned
ButtonDone(h) ==
    /\ pc[h] = "b_last"
    /\ Go(h, "idle", BlankLoc)
    /\ UNCHANGED <<cfgVars, cfg_call, app, cache, trends_table, next_id, runs,
                   last_success, generations, scoutVars, unitVars>>

\* the policy files and the remote payloads the bot meets
BotPolicyFiles ==
    {f \in PolicyFiles :
        \/ f.kind \in {"missing", "nondict"}
        \/ f.kind = "dict" /\ f.ac = {"science"} /\ f.nt = {} /\ f.ntr = {}
        \/ f.kind = "dict" /\ f.ac = {} /\ f.nt = {} /\ f.ntr = {1}}

BotTaxonomy ==
    <<[name |-> "technology",
       subcategories |-> <<[name |-> "llm", topics |-> <<"ai">>,
                            urls |-> <<"arxiv.org">>]>>]>>

BotRemoteOutcomes ==
    {o \in RemoteOutcomes :
        o.kind = "http_error" \/ (o.kind = "ok" /\ o.categories \in {<<>>, BotTaxonomy})}

InitBot ==
    /\ InitConfig
    /\ env_remote_url \in BOOLEAN
    /\ InitBotIdle
    /\ InitScoutIdle
    /\ InitUnitIdle
    /\ feeds_csv_url = FALSE

DoStartup == \E file \in BotPolicyFiles, outcome \in BotRemoteOutcomes : Startup(file, outcome)

DoTrendingCommand == \E h \in Handlers : TrendingCommand(h)

DoButtonDenied == \E h \in Handlers : ButtonDenied(h)

DoButtonRefresh == \E h \in Handlers : ButtonRefresh(h)

DoRefreshAnswered == \E h \in Handlers : RefreshAnswered(h)

DoTriggerInitialize == \E h \in Handlers, file \in BotPolicyFiles : TriggerInitialize(h, file)

DoTriggerRemoteLoaded ==
    \E h \in Handlers, outcome \in BotRemoteOutcomes : TriggerRemoteLoaded(h, outcome)

DoSearchResponse == \E h \in Handlers, resp \in SearchResponses : SearchResponse(h, resp)

DoLLMResponse == \E h \in Handlers, resp \in LLMResponses : LLMResponse(h, resp)

DoInsertResponse == \E h \in Handlers, outcome \in InsertOutcomes : InsertResponse(h, outcome)

DoTriggerReport == \E h \in Handlers : TriggerReport(h)

DoButtonLookup ==
    \E h \in Handlers, kind \in {"view", "scout"}, key \in 1..next_id : ButtonLookup(h, kind, key)

DoButtonBack == \E h \in Handlers : ButtonBack(h)

DoButtonAnswered == \E h \in Handlers : ButtonAnswered(h)

DoButtonDone == \E h \in Handlers : ButtonDone(h)

Next ==
    \/ DoStartup
    \/ DoTrendingCommand
    \/ DoButtonDenied
    \/ DoButtonRefresh
    \/ DoRefreshAnswered
    \/ DoTriggerInitialize
    \/ DoTriggerRemoteLoaded
    \/ DoSearchResponse
    \/ DoLLMResponse
    \/ DoInsertResponse
    \/ DoTriggerReport
    \/ DoButtonLookup
    \/ DoButtonBack
    \/ DoButtonAnswered
    \/ DoButtonDone

Spec == InitBot /\ [][Next]_vars

(***************************************************************************)
(* The prompt preparation of fetch_and_generate_trends                     *)
(* (trend_engine.py:96-112), run on its own on every search response.      *)
(***************************************************************************)
\* relevance scores, in thousandths
ScoreValues == {300, 500, 900}

ResultTitles == {"a", "b"}

\* a result of the search response: a dict whose keys may be absent (url and
\* content, formatted like the title on lines 108 and 110, are left out)
SearchResults ==
    [title : {{}} \cup {{t} : t \in ResultTitles},
     score : {{}} \cup {{v} : v \in ScoreValues}]

\* trend_engine.py:102  key=lambda x: x.get('score', 0)
ScoreKey(res) == Get(res.score, 0)

\* InsertByScore putting a result before the results of equal score
InsertByScoreFirst(sorted, res) ==
    LET k == Cardinality({i \in 1..Len(sorted) : ScoreKey(sorted[i]) > ScoreKey(res)})
    IN  SubSeq(sorted, 1, k) \o <<res>> \o SubSeq(sorted, k + 1, Len(sorted))

\* trend_engine.py:102  where sorted(..., reverse=True) puts a result among
\* the results before it: behind every result whose score is not smaller
InsertByScore(sorted, res) ==
    LET k == Cardinality({i \in 1..Len(sorted) : ScoreKey(sorted[i]) >= ScoreKey(res)})
    IN  SubSeq(sorted, 1, k) \o <<res>> \o SubSeq(sorted, k + 1, Len(sorted))

RECURSIVE SortedResults(_)
\* trend_engine.py:102  sorted(raw_results, key=..., reverse=True)
SortedResults(raw) ==
    IF raw = <<>> THEN <<>>
    ELSE InsertByScore(SortedResults(SubSeq(raw, 1, Len(raw) - 1)), raw[Len(raw)])

\* trend_engine.py:109  f"{score:.2f}": thousandths rounded to hundredths
\* (no score of ScoreValues lies halfway between two hundredths)
TwoDecimals(v) == (v + 5) \div 10

\* trend_engine.py:106-110  the block of the i-th sorted result
FormatBlock(i, res) ==
    [source |-> i, title |-> Get(res.title, "N/A"), score |-> TwoDecimals(ScoreKey(res))]

\* trend_engine.py:104-112  formatted_context, block by block
FormattedContext(sorted) == [i \in 1..Len(sorted) |-> FormatBlock(i, sorted[i])]

\* trend_engine.py:96-112  from the search response to the context of the prompt
PreparePrompt(raw_results) ==
    IF raw_results = <<>>
    THEN [outcome |-> "no_results", raw_results |-> raw_results,
          sorted_results |-> <<>>, blocks |-> <<>>]
    ELSE [outcome |-> "prompt", raw_results |-> raw_results,
          sorted_results |-> SortedResults(raw_results),
          blocks |-> FormattedContext(SortedResults(raw_results))]

PromptCall(raw_results) ==
    /\ prompt_call' = PreparePrompt(raw_results)
    /\ UNCHANGED <<cfgVars, cfg_call, botVars, scoutVars, feed_call>>

\* one run per behaviour: a run depends on nothing an earlier run left
DoPromptCall ==
    /\ prompt_call = NoPromptCall
    /\ \E raw_results \in SeqsUpTo(SearchResults, MaxResults) : PromptCall(raw_results)

InitPrompt ==
    /\ InitConfig
    /\ env_remote_url = FALSE
    /\ InitBotIdle
    /\ InitScoutIdle
    /\ InitUnitIdle
    /\ feeds_csv_url = FALSE

NextPrompt == DoPromptCall

SpecPrompt == InitPrompt /\ [][NextPrompt]_vars

(***************************************************************************)
(* ScoutAgent (scout_agent.py).  Texts are sequences of characters.        *)
(***************************************************************************)
ToLower ==
    ("R" :> "r") @@ ("U" :> "u") @@ ("S" :> "s") @@ ("T" :> "t") @@ ("P" :> "p")

\* str.lower
LowerText(t) == [i \in 1..Len(t) |-> IF t[i] \in DOMAIN ToLower THEN ToLower[t[i]] ELSE t[i]]

\* needle in hay
Contains(hay, needle) ==
    \E i \in 0..(Len(hay) - Len(needle)) : SubSeq(hay, i + 1, i + Len(needle)) = needle

NoTitle == <<"N", "o", " ", "T", "i", "t", "l", "e">>

\* scout_agent.py:131  the label put before a summary whose full text is unavailable
Unavailable == <<"Content unavailable. Original: ">>

\* the categories run_scout always has, in the order of the dict
KnownCategories ==
    <<"tech_news", "reddit_sub", "security_news", "ml_ai_news", "dev_blog", "open_source">>

\* the words _get_source_label looks for that the category name contains
WordsIn(category) ==
    CASE category = "reddit_sub" -> {"reddit"}
      [] category = "security_news" -> {"security"}
      [] category = "ml_ai_news" -> {"ai", "ml"}
      [] category = "dev_blog" -> {"blog"}
      [] category = "my_blog" -> {"blog"}
      [] category = "open_source" -> {"open_source"}
      [] OTHER -> {}

\* scout_agent.py:82-97  _get_source_label
SourceLabel(category) ==
    LET w == WordsIn(category)
    IN  IF "reddit" \in w THEN "Reddit"
        ELSE IF "security" \in w THEN "Security"
        ELSE IF "ai" \in w \/ "ml" \in w THEN "AI/ML"
        ELSE IF "blog" \in w THEN "Blog"
        ELSE IF "open_source" \in w THEN "Open Source"
        ELSE "News"

\* the rows of the remote feed list: a listed category or a new one, a URL
\* that starts with http or one that does not
CsvRows ==
    {[Category |-> "tech_news", URL |-> "http://a/rss"],
     [Category |-> "my_blog", URL |-> "http://b/rss"],
     [Category |-> "tech_news", URL |-> "ftp://c"]}

\* scout_agent.py:68  url.startswith("http")
StartsWithHttp(url) == url \in {"http://a/rss", "http://b/rss"}

\* what the GET of the feed list ends in
FeedListOutcomes ==
    [kind : {"error"}, rows : {<<>>}] \cup [kind : {"ok"}, rows : SeqsUpTo(CsvRows, MaxRows)]

\* scout_agent.py:44-51  the feed_config every load starts from
EmptyFeedConfig ==
    [i \in 1..Len(KnownCategories) |-> [category |-> KnownCategories[i], urls |-> <<>>]]

\* scout_agent.py:68-72  one row added to feed_config: to its category's
\* list, or to a new category at the end of the dict
AddRow(config, row) ==
    IF ~StartsWithHttp(row.URL) THEN config
    ELSE IF \E i \in 1..Len(config) : config[i].category = row.Category
    THEN [i \in 1..Len(config) |->
            IF config[i].category = row.Category
            THEN [config[i] EXCEPT !.urls = Append(@, row.URL)]
            ELSE config[i]]
    ELSE Append(config, [category |-> row.Category, urls |-> <<row.URL>>])

RECURSIVE AddRows(_, _)
AddRows(config, rows) ==
    IF rows = <<>> THEN config ELSE AddRows(AddRow(config, Head(rows)), Tail(rows))

\* scout_agent.py:43-80  _load_feeds_from_remote: without FEEDS_CSV_URL and
\* after a failed GET the feed_config is the empty one
LoadFeeds(url_set, outcome) ==
    IF url_set /\ outcome.kind = "ok" THEN AddRows(EmptyFeedConfig, outcome.rows)
    ELSE EmptyFeedConfig

\* scout_agent.py:171-174  the two Reddit searches for the topic
RedditSearchUrls ==
    <<"https://www.reddit.com/r/technology/search.rss", "https://www.reddit.com/search.rss">>

RECURSIVE FeedTasks(_)
\* scout_agent.py:163-169  one task per url of every category, in dict order
FeedTasks(config) ==
    IF config = <<>> THEN <<>>
    ELSE [i \in 1..Len(Head(config).urls) |->
            [url |-> Head(config).urls[i], label |-> SourceLabel(Head(config).category)]]
         \o FeedTasks(Tail(config))

\* AllTasks without the searches of lines 171-178
AllTasksWithoutSearch(config) == FeedTasks(config)

\* scout_agent.py:163-178  the tasks run_scout launches, in launch order
AllTasks(config) ==
    FeedTasks(config)
    \o [i \in 1..Len(RedditSearchUrls) |-> [url |-> RedditSearchUrls[i], label |-> "Reddit Search"]]

\* scout_agent.py:99-107  _fetch_full_text: the extracted text, or "" when
\* the download or the extraction fails
FetchFullText(link, web) == web[link]

\* scout_agent.py:117-123  the entry mentions the topic in title + " " + summary
Mentions(entry, topic) ==
    Contains(LowerText(Get(entry.title, NoTitle) \o <<" ">> \o Get(entry.summary, <<>>)),
             LowerText(topic))

\* scout_agent.py:126-127  _fetch_full_text is called for a kept entry
FetchAttempted(entry) == Len(Get(entry.summary, <<>>)) < ShortSummary

\* StoredSummary keeping the whole extracted text
StoredSummaryUncut(entry, web) ==
    LET summary_raw == Get(entry.summary, <<>>)
        full_text == FetchFullText(Get(entry.link, <<>>), web)
    IN  IF FetchAttempted(entry)
        THEN IF full_text # <<>>
             THEN full_text
             ELSE Unavailable \o summary_raw
        ELSE summary_raw

\* scout_agent.py:125-131  the summary stored for a kept entry
StoredSummary(entry, web) ==
    LET summary_raw == Get(entry.summary, <<>>)
        full_text == FetchFullText(Get(entry.link, <<>>), web)
    IN  IF FetchAttempted(entry)
        THEN IF full_text # <<>>
             THEN SubSeq(full_text, 1, Min(FullTextKept, Len(full_text)))
             ELSE Unavailable \o summary_raw
        ELSE summary_raw

\* scout_agent.py:22-29, 133-138  ScrapedArticle (published_at, the time of
\* creation, is left out)
Article(entry, web, label) ==
    [source |-> label, title |-> Get(entry.title, NoTitle), url |-> Get(entry.link, <<>>),
     summary |-> StoredSummary(entry, web)]

\* KeptPositions inspecting every entry of the feed
KeptPositionsAll(entries, topic) ==
    SelectSeq([i \in 1..Len(entries) |-> i], LAMBDA i : Mentions(entries[i], topic))

\* scout_agent.py:116-123  the positions in the feed of the entries kept:
\* those of d.entries[:5] that mention the topic
KeptPositions(entries, topic) ==
    SelectSeq([i \in 1..Min(EntriesInspected, Len(entries)) |-> i],
              LAMBDA i : Mentions(entries[i], topic))

\* scout_agent.py:126-127  the positions of the entries whose link
\* _fetch_full_text is called with, in the order of the calls
FetchesOf(entries, topic) ==
    SelectSeq(KeptPositions(entries, topic), LAMBDA i : FetchAttempted(entries[i]))

\* scout_agent.py:116-139  the articles of the entries inspected
ArticlesOf(entries, topic, label, web) ==
    LET kept == KeptPositions(entries, topic)
    IN  [i \in 1..Len(kept) |-> Article(entries[kept[i]], web, label)]

\* ParseSingleFeed without the try/except of lines 113, 141-142
ParseSingleFeedUncaught(feed, topic, label, web) ==
    IF feed.kind = "raise"
    THEN [raised |-> TRUE, articles |-> <<>>]
    ELSE [raised |-> FALSE, articles |-> ArticlesOf(feed.entries, topic, label, web)]

\* scout_agent.py:109-144  _parse_single_feed: a raising feedparser.parse is
\* caught and the feed yields no articles
ParseSingleFeed(feed, topic, label, web) ==
    IF feed.kind = "raise"
    THEN [raised |-> FALSE, articles |-> <<>>]
    ELSE [raised |-> FALSE, articles |-> ArticlesOf(feed.entries, topic, label, web)]

\* SessionStep that goes on without a session
SessionStepIgnored(outcome, id) == [ok |-> TRUE, session_id |-> IF outcome = "ok" THEN id ELSE NoSession]

\* scout_agent.py:151-157  the session insert: a raising insert and one that
\* returns no row (IndexError) end the mission
SessionStep(outcome, id) ==
    IF outcome = "ok" THEN [ok |-> TRUE, session_id |-> id]
    ELSE [ok |-> FALSE, session_id |-> NoSession]

\* scout_agent.py:186-196  db_records
DbRecords(session_id, articles) ==
    [i \in 1..Len(articles) |->
        [session_id |-> session_id, source |-> articles[i].source,
         title |-> articles[i].title, url |-> articles[i].url,
         summary |-> articles[i].summary]]

RECURSIVE Concat(_)
\* scout_agent.py:181-182  the results of the tasks, in launch order
Concat(results) ==
    IF results = <<>> THEN <<>> ELSE Head(results) \o Concat(Tail(results))

(***************************************************************************)
(* The inputs of one mission.                                              *)
(***************************************************************************)
Rust == <<"R", "u", "s", "t">>

Links == {<<"l", "1">>, <<"l", "2">>}

Entry(title, link, summary) == [title |-> {title}, link |-> {link}, summary |-> {summary}]

EntryRustUpper == Entry(<<"R", "U", "S", "T">>, <<"l", "1">>, <<"x">>)

EntryPython == Entry(<<"P", "y">>, <<"l", "2">>, <<"n", "o">>)

\* what feedparser.parse ends in for a feed
FeedOutcomes ==
    {[kind |-> "raise", entries |-> <<>>],
     [kind |-> "ok", entries |-> <<EntryPython>>],
     [kind |-> "ok", entries |-> <<EntryPython, EntryRustUpper>>]}

\* what the download and extraction of each link ends in
Webs == [Links -> {<<>>, <<"f", "u", "l", "l">>}]

ScoutTopics == {Rust}

SessionOutcomes == {"raise", "no_rows", "ok"}

(***************************************************************************)
(* run_scout.                                                              *)
(***************************************************************************)
\* scout_agent.py:146-149  run_scout(topic) awaits _load_feeds_from_remote
ScoutCall(topic) ==
    /\ sc_pc = "idle"
    /\ sc_pc' = "loading"
    /\ sc' = [BlankScout EXCEPT !.topic = topic, !.outcome = "running"]
    /\ UNCHANGED <<cfgVars, cfg_call, botVars, unitVars, feeds_csv_url, research_sessions, raw_news>>

\* scout_agent.py:149-161  the feed list is loaded and the session row is
\* inserted: without a session run_scout returns 0
FeedsLoaded(outcome, session) ==
    /\ sc_pc = "loading"
    /\ LET config == LoadFeeds(feeds_csv_url, outcome)
           step == SessionStep(session, Cardinality(research_sessions) + 1)
       IN  /\ research_sessions' =
                IF session = "ok"
                THEN research_sessions \cup {[id |-> Cardinality(research_sessions) + 1,
                                              topic |-> sc.topic, status |-> "scouting"]}
                ELSE research_sessions
           /\ IF step.ok
              THEN /\ sc_pc' = "launching"
                   /\ sc' = [sc EXCEPT !.feed_config = config, !.session = session,
                                       !.session_id = step.session_id,
                                       !.to_launch = AllTasks(config)]
              ELSE /\ sc_pc' = "done"
                   /\ sc' = [sc EXCEPT !.feed_config = config, !.session = session,
                                       !.outcome = "returned", !.result = 0]
    /\ UNCHANGED <<cfgVars, cfg_call, botVars, unitVars, feeds_csv_url, raw_news>>

\* scout_agent.py:163-178  run_in_executor hands the next feed to the pool;
\* after the last one gather is awaited
LaunchTask ==
    /\ sc_pc = "launching"
    /\ sc' = [sc EXCEPT !.to_launch = Tail(@),
                        !.tasks = Append(@, [url |-> Head(sc.to_launch).url,
                                             label |-> Head(sc.to_launch).label,
                                             state |-> "running", failed |-> FALSE,
                                             raised |-> FALSE, articles |-> <<>>])]
    /\ sc_pc' = IF Len(sc.to_launch) = 1 THEN "gather" ELSE "launching"
    /\ UNCHANGED <<cfgVars, cfg_call, botVars, unitVars, feeds_csv_url, research_sessions, raw_news>>

\* scout_agent.py:109-144  a pool thread ran _parse_single_feed to its end
TaskCompletes(i, feed, web) ==
    /\ sc_pc \in {"launching", "gather"}
    /\ i \in 1..Len(sc.tasks)
    /\ sc.tasks[i].state = "running"
    /\ LET r == ParseSingleFeed(feed, sc.topic, sc.tasks[i].label, web)
       IN  sc' = [sc EXCEPT !.tasks[i] = [@ EXCEPT !.state = "done",
                                                   !.failed = (feed.kind = "raise"),
                                                   !.raised = r.raised,
                                                   !.articles = r.articles]]
    /\ UNCHANGED <<cfgVars, cfg_call, botVars, unitVars, feeds_csv_url, sc_pc, research_sessions, raw_news>>

\* scout_agent.py:180-201  gather returned: the articles are collected and
\* inserted in one batch, outside any try, and the session id is returned
GatherDone(insert) ==
    /\ sc_pc = "gather"
    /\ \A i \in 1..Len(sc.tasks) : sc.tasks[i].state = "done"
    /\ LET collected == Concat([i \in 1..Len(sc.tasks) |-> sc.tasks[i].articles])
           aborted == \E i \in 1..Len(sc.tasks) : sc.tasks[i].raised
           inserts == ~aborted /\ collected # <<>>
       IN  /\ insert = "none" <=> ~inserts
           /\ raw_news' = IF insert = "ok"
                          THEN raw_news \o DbRecords(sc.session_id, collected)
                          ELSE raw_news
           /\ sc' = [sc EXCEPT !.collected = IF aborted THEN <<>> ELSE collected,
                               !.insert = insert,
                               !.outcome = IF aborted \/ insert = "raise"
                                           THEN "raised" ELSE "returned",
                               !.result = IF aborted \/ insert = "raise"
                                          THEN NoSession ELSE sc.session_id]
    /\ sc_pc' = "done"
    /\ UNCHANGED <<cfgVars, cfg_call, botVars, unitVars, feeds_csv_url, research_sessions>>

DoScoutCall == \E topic \in ScoutTopics : ScoutCall(topic)

DoFeedsLoaded ==
    \E outcome \in FeedListOutcomes, session \in SessionOutcomes : FeedsLoaded(outcome, session)

DoTaskCompletes ==
    \E i \in 1..(MaxRows + 2), feed \in FeedOutcomes, web \in Webs : TaskCompletes(i, feed, web)

DoGatherDone == \E insert \in {"none", "ok", "raise"} : GatherDone(insert)

InitScout ==
    /\ InitConfig
    /\ env_remote_url = FALSE
    /\ InitBotIdle
    /\ InitScoutIdle
    /\ InitUnitIdle
    /\ feeds_csv_url \in BOOLEAN

NextScout == DoScoutCall \/ DoFeedsLoaded \/ LaunchTask \/ DoTaskCompletes \/ DoGatherDone

SpecScout == InitScout /\ [][NextScout]_vars

(***************************************************************************)
(* _parse_single_feed (scout_agent.py:109-144) called on its own.          *)
(***************************************************************************)
\* a text of n characters that mentions nothing
Pad(n) == [i \in 1..n |-> "x"]

\* the lengths of the feed summaries, around the limit of line 126
SummarySizes == {0, 50, 299, 300, 1000}

\* the lengths of the extracted texts, around the cut of line 129
FullTextSizes == {0, 10, 3000, 3001}

\* an entry that mentions the topic in its title, with a summary of n characters
EntrySized(n) == Entry(Rust, <<"l", "1">>, Pad(n))

\* an entry that mentions the topic inside a word of its summary
EntryInSummary == Entry(<<"G", "o">>, <<"l", "1">>, <<"t", "r", "u", "s", "t", "y">>)

\* an entry whose title ends and whose summary starts with a half of the topic
EntrySplit == Entry(<<"R", "u">>, <<"l", "1">>, <<"s", "t">>)

\* an entry without title, link and summary
EntryBare == [title |-> {}, link |-> {}, summary |-> {}]

\* the feeds parsed: every feed of up to MaxEntries entries that mention the
\* topic or not, and the feeds of one entry of each other kind
ParsedFeeds ==
    SeqsUpTo({EntryPython, EntryRustUpper}, MaxEntries)
    \cup {<<EntrySized(n)>> : n \in SummarySizes}
    \cup {<<EntryInSummary>>, <<EntrySplit>>, <<EntryBare>>}

FeedCallOutcomes ==
    {[kind |-> "raise", entries |-> <<>>]} \cup [kind : {"ok"}, entries : ParsedFeeds]

\* what the download and extraction of each link ends in
FeedWebs ==
    {(<<"l", "1">> :> Pad(n)) @@ (<<"l", "2">> :> Pad(m)) :
        n \in FullTextSizes, m \in {0, 10}}

\* scout_agent.py:109-144  _parse_single_feed(feed_url, topic, "News") where
\* feedparser.parse ends in `feed` and the pages are as in `web`
FeedCall(feed, topic, web) ==
    /\ feed_call' =
          [outcome |-> IF feed.kind = "raise" THEN "failed" ELSE "parsed",
           entries |-> feed.entries, topic |-> topic, web |-> web,
           fetched |-> IF feed.kind = "raise" THEN <<>> ELSE FetchesOf(feed.entries, topic),
           articles |-> ParseSingleFeed(feed, topic, "News", web).articles]
    /\ UNCHANGED <<cfgVars, cfg_call, botVars, scoutVars, prompt_call>>

\* one call per behaviour: a call depends on nothing an earlier call left
DoFeedCall ==
    /\ feed_call = NoFeedCall
    /\ \E feed \in FeedCallOutcomes, topic \in ScoutTopics, web \in FeedWebs :
          FeedCall(feed, topic, web)

InitFeed ==
    /\ InitConfig
    /\ env_remote_url = FALSE
    /\ InitBotIdle
    /\ InitScoutIdle
    /\ InitUnitIdle
    /\ feeds_csv_url = FALSE

NextFeed == DoFeedCall

SpecFeed == InitFeed /\ [][NextFeed]_vars

(***************************************************************************)
(* Properties of the scout agent, checked under SpecScout.                 *)
(***************************************************************************)
\* C3 as stated: once the session row is created, run_scout returns the
\* session id on every path, also when the insert of the articles fails.
C3_SessionIdReturned ==
    (sc_pc = "done" /\ sc.session = "ok")
        => (sc.outcome = "returned" /\ sc.result = sc.session_id)

\* C4: when the session insert fails run_scout returns 0 at once: no task is
\* launched and no article is inserted, whatever the feed list holds.
C4_NoSessionNoWork ==
    sc.session \in {"raise", "no_rows"}
        => /\ sc_pc = "done"
           /\ sc.outcome = "returned" /\ sc.result = 0
           /\ sc.tasks = <<>> /\ sc.to_launch = <<>>
           /\ raw_news = <<>>
           /\ research_sessions = {}

\* C4 witness: the session insert raised in a mission whose feed list has feeds
C4_Witness ==
    /\ sc.session = "raise"
    /\ \E i \in 1..Len(sc.feed_config) : sc.feed_config[i].urls # <<>>
    /\ sc.result = 0 /\ sc_pc = "done"

\* C8: a feed whose parse raises contributes no articles and does not end the
\* mission: what is collected, and inserted when the insert succeeds, is
\* exactly what the other feeds contribute, in launch order.
C8_FailingFeedIsolated ==
    /\ \A i \in 1..Len(sc.tasks) :
          (sc.tasks[i].state = "done" /\ sc.tasks[i].failed)
              => (sc.tasks[i].articles = <<>> /\ ~sc.tasks[i].raised)
    /\ (sc_pc = "done" /\ sc.session = "ok")
          => LET others == Concat([i \in 1..Len(sc.tasks) |->
                                      IF sc.tasks[i].failed THEN <<>>
                                      ELSE sc.tasks[i].articles])
             IN  /\ sc.collected = others
                 /\ sc.outcome = "raised" => sc.insert = "raise"
                 /\ others # <<>> => sc.insert # "none"
                 /\ sc.insert = "ok"
                      => /\ Len(raw_news) = Len(others)
                         /\ \A k \in 1..Len(others) :
                               /\ raw_news[k].session_id = sc.session_id
                               /\ raw_news[k].title = others[k].title
                               /\ raw_news[k].url = others[k].url
                               /\ raw_news[k].summary = others[k].summary
                               /\ raw_news[k].source = others[k].source

\* C8 witness: a mission of four feeds ended with one feed failed and the
\* articles of two others inserted
C8_Witness ==
    /\ sc_pc = "done" /\ sc.insert = "ok" /\ sc.result = sc.session_id
    /\ Len(sc.tasks) = 4
    /\ \E i \in 1..Len(sc.tasks) : sc.tasks[i].failed
    /\ Len(raw_news) = 2

(***************************************************************************)
(* Properties of the trend engine and the cache, checked under Spec.       *)
(***************************************************************************)
\* C1: when the search raises, the search finds nothing or the LLM output
\* fails validation, fetch_and_generate_trends returns [] without raising and
\* inserts nothing into the trends table.
C1_FailuresReturnEmpty ==
    \A h \in Handlers :
        loc[h].fail \in {"search_raise", "no_results", "llm_invalid"}
            => /\ loc[h].synth = "returned"
               /\ loc[h].result = <<>>
               /\ loc[h].inserted = {}
               /\ pc[h] = "t_report"

\* C1 witness: one call ended by a raising search and another by invalid LLM
\* output, with rows of an earlier call in the table
C1_Witness ==
    /\ \E h \in Handlers : loc[h].fail = "search_raise" /\ loc[h].synth = "returned"
    /\ \E h \in Handlers : loc[h].fail = "llm_invalid" /\ loc[h].synth = "returned"

\* C2: the list fetch_and_generate_trends returns is empty or holds only rows
\* the store returned, each with a store-assigned id and a name and a context;
\* when the insert raises or returns no rows the list is empty.
C2_AllOrNothing ==
    \A h \in Handlers :
        loc[h].synth = "returned"
            => /\ \A i \in 1..Len(loc[h].result) :
                    LET t == loc[h].result[i]
                    IN  /\ t.id # NoId
                        /\ t.id \in loc[h].inserted
                        /\ t.name # "" /\ t.context # ""
                        /\ \E row \in trends_table :
                              /\ row.id = t.id
                              /\ row.name = t.name /\ row.context = t.context
                              /\ row.parent_details = t.parent_details
               /\ loc[h].fail \in {"insert_raise", "insert_no_rows"} => loc[h].result = <<>>
               /\ loc[h].result # <<>> => Len(loc[h].result) = Len(loc[h].trends_data)

\* C2 witness: one call returned two stored trends, another returned [] after
\* its insert raised
C2_Witness ==
    /\ \E h \in Handlers : loc[h].synth = "returned" /\ Len(loc[h].result) = 2
    /\ \E h \in Handlers :
          /\ loc[h].synth = "returned" /\ loc[h].fail = "insert_raise"
          /\ loc[h].trends_data # <<>>

OneGeneration(m) == m = EmptyCache \/ m \in generations

\* C6: the cache, and every value of it a handler read, is the complete
\* mapping of exactly one generation, or the initial empty mapping.
C6_CacheReplacedAtomically ==
    /\ OneGeneration(cache)
    /\ \A h \in Handlers : OneGeneration(loc[h].seen)

\* C6 witness: a handler that read the cache of one generation is suspended
\* while another generation has replaced the cache
C6_Witness ==
    \E h \in Handlers :
        /\ pc[h] \in {"b_answer", "b_last"}
        /\ loc[h].seen # EmptyCache
        /\ cache # EmptyCache
        /\ loc[h].seen # cache

\* C7: the cache is exactly the id-to-Trend mapping of the last non-empty
\* list fetch_and_generate_trends returned, and empty before the first.
C7_CacheIsLastSuccess ==
    /\ DOMAIN cache = {last_success[i].id : i \in 1..Len(last_success)}
    /\ \A i \in 1..Len(last_success) : cache[last_success[i].id] = last_success[i]

\* C7 witness: after two successful generations a third call returned [];
\* the cache holds the second generation and nothing of the first
C7_Witness ==
    /\ Cardinality(generations) = 2
    /\ 1 \notin DOMAIN cache
    /\ cache # EmptyCache
    /\ \E h \in Handlers : loc[h].synth = "returned" /\ loc[h].result = <<>>

(***************************************************************************)
(* Properties of the configuration manager, checked under SpecConfig.      *)
(***************************************************************************)
DefaultPolicy ==
    /\ active_category = DefaultCategory
    /\ num_topics = DefaultNumTopics
    /\ num_trends = DefaultNumTrends

\* the subcategory the last get_trends call chose
ChosenSubcat ==
    remote_data[FindCategory(remote_data, active_category)].subcategories[cfg_call.res.idx]

\* the positions of the chosen subcategory's topics that are not excluded
RemainingPositions ==
    {i \in 1..Len(ChosenSubcat.topics) : ChosenSubcat.topics[i] \notin cfg_call.res.excluded}

SelectReturned == cfg_call.op = "get_trends" /\ cfg_call.status = "returned"

\* C5 as stated: the topics get_trends returns are pairwise distinct, belong
\* to the chosen subcategory, are not excluded and number at most
\* min(num_topics, remaining topics).
C5_SelectDistinctTopics ==
    SelectReturned =>
        LET t == cfg_call.res.topics
        IN  /\ \A i, j \in 1..Len(t) : i # j => t[i] # t[j]
            /\ \A i \in 1..Len(t) : t[i] \in Range(ChosenSubcat.topics)
            /\ \A i \in 1..Len(t) : t[i] \notin cfg_call.res.excluded
            /\ Len(t) <= Min(num_topics, Cardinality(RemainingPositions))

\* C5 amended: the topics get_trends returns are taken at pairwise distinct
\* positions of the remaining topic list (no topic is returned more often than
\* it remains, so they are pairwise distinct when the subcategory lists no
\* topic twice), belong to the chosen subcategory, are not excluded and number
\* at most min(num_topics, remaining topics); with remaining topics the call
\* returns unless num_topics is negative.
C5_SelectSample ==
    /\ SelectReturned =>
        LET t == cfg_call.res.topics
        IN  /\ \A x \in Range(t) :
                   Count(t, x) <= Cardinality({i \in RemainingPositions : ChosenSubcat.topics[i] = x})
            /\ (\A i, j \in 1..Len(ChosenSubcat.topics) :
                    i # j => ChosenSubcat.topics[i] # ChosenSubcat.topics[j])
                => \A i, j \in 1..Len(t) : i # j => t[i] # t[j]
            /\ \A i \in 1..Len(t) : t[i] \in Range(ChosenSubcat.topics)
            /\ \A i \in 1..Len(t) : t[i] \notin cfg_call.res.excluded
            /\ Len(t) <= Min(num_topics, Cardinality(RemainingPositions))
            /\ cfg_call.res.subcat = ChosenSubcat.name
    /\ (cfg_call.op = "get_trends" /\ cfg_call.res.idx > 0 /\ RemainingPositions # {})
        => (cfg_call.status = "returned" <=> num_topics >= 0)

\* C5 witness: a call with exclusions returned fewer topics than num_topics
\* because fewer remained
C5_Witness ==
    /\ SelectReturned
    /\ cfg_call.res.excluded # {}
    /\ Len(cfg_call.res.topics) >= 1
    /\ Len(cfg_call.res.topics) < num_topics
    /\ Len(ChosenSubcat.topics) > Len(cfg_call.res.topics)

\* C9 as stated: _load_policy never raises, and after it found the file
\* missing or malformed the policy is the default policy.
C9_LoadPolicyDefaults ==
    (cfg_call.op = "load_policy" /\ cfg_call.detail \in {"missing", "badyaml", "nondict"})
        => (cfg_call.status = "returned" /\ DefaultPolicy)

\* C10 as stated: after _load_remote_data ended in a missing endpoint, a
\* network error or a validation failure the taxonomy is empty.
C10_FailedLoadLeavesEmpty ==
    (cfg_call.op = "load_remote_data"
        /\ cfg_call.detail \in {"no_url", "http_error", "validation_error"})
        => remote_data = <<>>

\* C11: when get_trends chose a subcategory of which no topic remains after
\* the exclusions (all excluded, or none listed), the call raises the
\* Exhausted error, its message names that subcategory and the exclusion list
\* passed in, and no selection is returned; the error is raised in no other
\* case.
C11_ExhaustedNamesSubcategory ==
    cfg_call.op = "get_trends" =>
        /\ (cfg_call.res.idx > 0 /\ RemainingPositions = {}) =>
              /\ cfg_call.status = "raised"
              /\ cfg_call.detail = "Exhausted"
              /\ cfg_call.res.message.subcat = {ChosenSubcat.name}
              /\ cfg_call.res.message.excluded = {cfg_call.res.excluded}
              /\ cfg_call.res.topics = NoTopics
              /\ cfg_call.res.urls = <<>>
        /\ cfg_call.detail = "Exhausted" =>
              (cfg_call.res.idx > 0 /\ RemainingPositions = {})

\* C11 witness: a subcategory with topics, every one of them excluded, was
\* chosen and the call raised
C11_Witness ==
    /\ cfg_call.op = "get_trends"
    /\ cfg_call.status = "raised"
    /\ cfg_call.res.idx > 0
    /\ Len(ChosenSubcat.topics) >= 1
    /\ Range(ChosenSubcat.topics) \subseteq cfg_call.res.excluded

\* a category named active_category that has subcategories is in the taxonomy
CategoryLocated ==
    \E i \in 1..Len(remote_data) :
        /\ remote_data[i].name = active_category
        /\ \A j \in 1..(i - 1) : remote_data[j].name # active_category
        /\ remote_data[i].subcategories # <<>>

\* the ValueErrors get_trends raises before line 104 chooses a subcategory:
\* line 95 (nothing loaded) and line 101 (no category, or no subcategories)
NotFoundErrors == {"NotReady", "NotFound"}

\* C12: when the taxonomy holds no category named active_category, or the
\* first such category has no subcategories (the empty taxonomy included),
\* get_trends raises before it chooses a subcategory and returns nothing; when
\* such a category is there, a subcategory is chosen.
C12_NotFoundWithoutChoice ==
    cfg_call.op = "get_trends" =>
        /\ ~CategoryLocated =>
              /\ cfg_call.status = "raised"
              /\ cfg_call.detail \in NotFoundErrors
              /\ cfg_call.res.idx = 0
              /\ cfg_call.res.subcat = ""
              /\ cfg_call.res.topics = NoTopics
              /\ (remote_data # <<>> =>
                    /\ cfg_call.detail = "NotFound"
                    /\ cfg_call.res.message.category = {active_category})
        /\ CategoryLocated =>
              (cfg_call.res.idx > 0 /\ cfg_call.detail \notin NotFoundErrors)

\* C12 witness: the taxonomy is loaded, holds categories, none of them named
\* active_category, and the call raised
C12_Witness ==
    /\ cfg_call.op = "get_trends"
    /\ cfg_call.status = "raised"
    /\ remote_data # <<>>
    /\ \A i \in 1..Len(remote_data) : remote_data[i].name # active_category
    /\ \E i \in 1..Len(remote_data) : remote_data[i].subcategories # <<>>

(***************************************************************************)
(* Properties of the prompt preparation, checked under SpecPrompt.         *)
(***************************************************************************)
\* the scores a sequence of results is sorted by
ScoreKeys(results) == [i \in 1..Len(results) |-> ScoreKey(results[i])]

\* the results of score k, in the order of the sequence
WithScore(results, k) == SelectSeq(results, LAMBDA r : ScoreKey(r) = k)

\* C13: the blocks of the prompt are the search results in non-increasing
\* order of score (an absent score counts as 0), one numbered block each;
\* results of equal score keep the order of the response, so the blocks are a
\* permutation of the results; scores 0.3, 0.9, 0.5 give blocks 0.90, 0.50,
\* 0.30.
C13_PromptSortedStable ==
    prompt_call.outcome = "prompt" =>
        LET raw == prompt_call.raw_results
            srt == prompt_call.sorted_results
            blocks == prompt_call.blocks
        IN  /\ Len(srt) = Len(raw)
            /\ Len(blocks) = Len(raw)
            /\ \A i, j \in 1..Len(srt) : i < j => ScoreKey(srt[i]) >= ScoreKey(srt[j])
            /\ \A k \in {0} \cup ScoreValues : WithScore(srt, k) = WithScore(raw, k)
            /\ \A i \in 1..Len(blocks) :
                  /\ blocks[i].source = i
                  /\ blocks[i].title = Get(srt[i].title, "N/A")
                  /\ blocks[i].score * 10 = ScoreKey(srt[i])
            /\ \A i, j \in 1..Len(blocks) : i < j => blocks[i].score >= blocks[j].score
            /\ ScoreKeys(raw) = <<300, 900, 500>> =>
                  [i \in 1..3 |-> blocks[i].score] = <<90, 50, 30>>

\* C13 witness: two results of equal score and different titles came before
\* a result of higher score, and the blocks are in another order than the
\* response
C13_Witness ==
    /\ prompt_call.outcome = "prompt"
    /\ prompt_call.sorted_results # prompt_call.raw_results
    /\ \E i, j \in 1..Len(prompt_call.raw_results) :
          /\ i < j
          /\ ScoreKey(prompt_call.raw_results[i]) = ScoreKey(prompt_call.raw_results[j])
          /\ prompt_call.raw_results[i].title # prompt_call.raw_results[j].title
          /\ \E m \in (j + 1)..Len(prompt_call.raw_results) :
                ScoreKey(prompt_call.raw_results[m]) > ScoreKey(prompt_call.raw_results[j])

(***************************************************************************)
(* Properties of _parse_single_feed, checked under SpecFeed.               *)
(***************************************************************************)
\* the positions among the first 5 entries of the feed parsed whose title,
\* a space and summary contain the topic, whatever the case of the letters
MatchingPositions ==
    {i \in 1..Len(feed_call.entries) :
        /\ i <= 5
        /\ Contains(LowerText(Get(feed_call.entries[i].title, NoTitle) \o <<" ">>
                                \o Get(feed_call.entries[i].summary, <<>>)),
                    LowerText(feed_call.topic))}

\* the k-th matching position, in feed order
MatchingPosition(k) ==
    CHOOSE i \in MatchingPositions :
        Cardinality({j \in MatchingPositions : j < i}) = k - 1

\* C14: the articles of a parsed feed are, in feed order, exactly the entries
\* among its first 5 that contain the topic as a case-insensitive substring
\* of title + " " + summary; an entry that does not contain it, and an entry
\* behind the fifth, yields no article.
C14_FirstFiveMentioning ==
    feed_call.outcome = "parsed" =>
        /\ Len(feed_call.articles) = Cardinality(MatchingPositions)
        /\ \A k \in 1..Len(feed_call.articles) :
              LET e == feed_call.entries[MatchingPosition(k)]
              IN  /\ feed_call.articles[k].title = Get(e.title, NoTitle)
                  /\ feed_call.articles[k].url = Get(e.link, <<>>)
                  /\ feed_call.articles[k].source = "News"
        /\ \A k \in 1..Len(feed_call.articles) :
              feed_call.articles[k].title # Get(EntryPython.title, NoTitle)

\* C14 witness: a feed of more than 5 entries was parsed whose sixth entry
\* and some but not all of whose first five entries mention the topic
C14_Witness ==
    /\ feed_call.outcome = "parsed"
    /\ Len(feed_call.entries) > 5
    /\ Mentions(feed_call.entries[6], feed_call.topic)
    /\ ~Mentions(feed_call.entries[1], feed_call.topic)
    /\ Len(feed_call.articles) >= 2
    /\ Len(feed_call.articles) < 5

\* C15: for every kept entry the full text of its link is fetched exactly
\* when its feed summary has fewer than 300 characters; the summary stored is
\* then the first 3000 characters of the extracted text (all of it when it
\* is shorter) or, when nothing was extracted, the label followed by the
\* feed summary; a summary of 300 characters or more is stored unchanged;
\* nothing is fetched for an entry that is not kept.
C15_FullTextWhenShort ==
    feed_call.outcome = "parsed" =>
        /\ Range(feed_call.fetched) \subseteq MatchingPositions
        /\ \A k \in 1..Cardinality(MatchingPositions) :
              LET i == MatchingPosition(k)
                  summary_raw == Get(feed_call.entries[i].summary, <<>>)
                  stored == feed_call.articles[k].summary
              IN  /\ (i \in Range(feed_call.fetched)) <=> (Len(summary_raw) < 300)
                  /\ Len(summary_raw) >= 300 => stored = summary_raw
                  /\ Len(summary_raw) < 300 =>
                        LET full_text == feed_call.web[Get(feed_call.entries[i].link, <<>>)]
                        IN  /\ full_text # <<>> =>
                                  /\ Len(stored) <= 3000
                                  /\ Len(stored) = Min(3000, Len(full_text))
                                  /\ stored = SubSeq(full_text, 1, Len(stored))
                            /\ full_text = <<>> =>
                                  stored = <<"Content unavailable. Original: ">> \o summary_raw
        /\ \A n \in {50, 300, 1000} :
              feed_call.entries = <<EntrySized(n)>> =>
                  (feed_call.fetched = <<1>> <=> n = 50)

\* C15 witness: the summary of a kept entry has 299 characters, its page
\* yields more than 3000 characters and the summary stored has 3000
C15_Witness ==
    /\ feed_call.outcome = "parsed"
    /\ feed_call.entries = <<EntrySized(299)>>
    /\ feed_call.fetched = <<1>>
    /\ Len(feed_call.web[<<"l", "1">>]) > 3000
    /\ Len(feed_call.articles[1].summary) = 3000

\* C16 as stated: the list fetch_and_generate_trends returns holds at most
\* num_trends trends, whatever array the LLM returned.
C16_AtMostNumTrends ==
    \A h \in Handlers :
        loc[h].synth = "returned" => Len(loc[h].result) <= loc[h].sel.num_trends

(***************************************************************************)
(* The fan-out of run_scout, checked under SpecScout.                      *)
(***************************************************************************)
\* the urls of the feed_config, category by category in the order of the dict
ConfiguredUrls == Concat([i \in 1..Len(sc.feed_config) |-> sc.feed_config[i].urls])

\* the urls of the tasks launched so far, in launch order
LaunchedUrls == [i \in 1..Len(sc.tasks) |-> sc.tasks[i].url]

AllLaunched ==
    /\ sc.to_launch = <<>>
    /\ LaunchedUrls = ConfiguredUrls \o RedditSearchUrls

AllCompleted == \A i \in 1..Len(sc.tasks) : sc.tasks[i].state = "done"

\* C17: in a run_scout call whose session insert succeeded the tasks
\* launched are one per url listed in the feed_config, category by category,
\* then one per Reddit search url, so two when the feed_config lists nothing;
\* gather is awaited only when all of them are launched, and the articles are
\* collected and inserted and the call ends only when all of them are done.
C17_FanOutThenGather ==
    sc.session = "ok" =>
        /\ sc_pc = "launching" =>
              /\ Len(sc.tasks) + Len(sc.to_launch) = Len(ConfiguredUrls) + 2
              /\ LaunchedUrls = SubSeq(ConfiguredUrls \o RedditSearchUrls, 1, Len(sc.tasks))
              /\ sc.to_launch # <<>>
              /\ sc.outcome = "running" /\ sc.collected = <<>> /\ raw_news = <<>>
        /\ sc_pc \in {"gather", "done"} =>
              /\ AllLaunched
              /\ Len(sc.tasks) = Len(ConfiguredUrls) + 2
              /\ sc.feed_config = EmptyFeedConfig => Len(sc.tasks) = 2
              /\ (~feeds_csv_url) => Len(sc.tasks) = 2
        /\ sc_pc = "gather" => (sc.outcome = "running" /\ sc.collected = <<>> /\ raw_news = <<>>)
        /\ (sc_pc = "done" \/ raw_news # <<>> \/ sc.collected # <<>> \/ sc.outcome # "running")
              => (AllLaunched /\ AllCompleted)

\* C17 witness: a call with two configured feeds ended after its four tasks
\* were launched and done, and its articles are stored
C17_Witness ==
    /\ sc.session = "ok"
    /\ sc_pc = "done"
    /\ sc.outcome = "returned"
    /\ Len(ConfiguredUrls) = 2
    /\ Len(sc.tasks) = 4
    /\ AllCompleted
    /\ raw_news # <<>>

====
